---- MODULE Spec2Model ----
(***************************************************************************)
(* A model of win-git-status: the parallel working-tree walker of          *)
(* src/src/worktree.rs (read_dir, process_directory, get_file_deltas, the  *)
(* ignore chain, the submodule probe) and the directory map of             *)
(* src/src/index.rs.                                                       *)
(*                                                                         *)
(* Strings are sequences of one-character strings, compared byte-wise.     *)
(* Paths are sequences of components, as std::path::Path iterates them.    *)
(***************************************************************************)
EXTENDS Integers, Sequences, FiniteSets, TLC

VARIABLES
    fs,             \* the working tree on disk: absolute path -> node
    index,          \* Index.entries: directory key -> list of DirEntry
    global_ignore,  \* the lines of the user's global excludes file
    pending,        \* tasks spawned on the rayon scope, not yet picked up
    running,        \* tasks a worker thread is executing, with their remaining steps
    changed_files,  \* Arc<Mutex<Vec<StatusEntry>>>
    entries,        \* WorkTree.entries once diff_against_index has returned
    panicked,       \* a task of the scope has panicked
    started,        \* history: the tasks picked up so far
    pc,             \* "scope" | "done" | "panic"; in Index::new
                    \* "open" | "read" | "indexed" | "index_err" | "index_panic"
    file,           \* history: the entries the index file was written from
    header,         \* the Header read_header returns
    contents,       \* Index::new: the bytes of the file not yet read
    parsed          \* history: what each read_entry call returned

index_vars == <<file, header, contents, parsed>>

vars == <<fs, index, global_ignore, pending, running, changed_files, entries,
          panicked, started, pc, index_vars>>

----------------------------------------------------------------------------
(* Bounds of the model.                                                    *)

NumThreads == 2     \* worker threads of the rayon pool
MaxStat == 2        \* file sizes on disk range over 1..MaxStat
MaxDepth == 2       \* nesting depth of the tracked directory chain
MaxEntries == 3     \* entries of an index file
MaxName == 16       \* name lengths 0..MaxName of the entries of one letter runs

----------------------------------------------------------------------------
(* Strings.                                                                *)

\* The byte value of a character (the order String::cmp uses).
Ord(c) ==
    CASE c = "NUL" -> 0
      [] c = "!" -> 33
      [] c = "*" -> 42
      [] c = "." -> 46
      [] c = "/" -> 47
      [] c = "@" -> 64
      [] c = "C" -> 67
      [] c = "D" -> 68
      [] c = "I" -> 73
      [] c = "R" -> 82
      [] c = "\\" -> 92
      [] c = "a" -> 97
      [] c = "b" -> 98
      [] c = "c" -> 99
      [] c = "d" -> 100
      [] c = "e" -> 101
      [] c = "g" -> 103
      [] c = "i" -> 105
      [] c = "k" -> 107
      [] c = "m" -> 109
      [] c = "n" -> 110
      [] c = "o" -> 111
      [] c = "r" -> 114
      [] c = "s" -> 115
      [] c = "t" -> 116
      [] c = "u" -> 117
      [] c = "v" -> 118
      [] c = "x" -> 120
      [] c = "y" -> 121
      [] c = "z" -> 122

RECURSIVE StrCmp(_, _)
\* String::cmp: lexicographic on bytes; "Less" | "Equal" | "Greater".
StrCmp(a, b) ==
    IF a = <<>> THEN (IF b = <<>> THEN "Equal" ELSE "Less")
    ELSE IF b = <<>> THEN "Greater"
    ELSE IF Ord(Head(a)) < Ord(Head(b)) THEN "Less"
    ELSE IF Ord(Head(a)) > Ord(Head(b)) THEN "Greater"
    ELSE StrCmp(Tail(a), Tail(b))

\* str::replace for a one-character pattern.
Replace(s, from, to) == [k \in 1..Len(s) |-> IF s[k] = from THEN to ELSE s[k]]

IsPrefix(p, s) == Len(p) <= Len(s) /\ SubSeq(s, 1, Len(p)) = p

\* The position of the last "/" of s, 0 if there is none.
LastSlash(s) ==
    LET at == {k \in 1..Len(s) : s[k] = "/"}
    IN IF at = {} THEN 0 ELSE CHOOSE k \in at : \A j \in at : j <= k

\* Path::new(s).parent() and .file_name(), for a relative "/"-separated s.
ParentStr(s) == IF LastSlash(s) = 0 THEN <<>> ELSE SubSeq(s, 1, LastSlash(s) - 1)
FileNameStr(s) == SubSeq(s, LastSlash(s) + 1, Len(s))

RECURSIVE AncestorStrs(_)
\* Path::new(s).ancestors(): s, its parent, ... down to "".
AncestorStrs(s) == IF s = <<>> THEN {<<>>} ELSE {s} \cup AncestorStrs(ParentStr(s))

----------------------------------------------------------------------------
(* Paths.                                                                  *)

\* std::path::MAIN_SEPARATOR of the platform the tool is built for.
MAIN_SEPARATOR == "\\"

GIT == <<".", "g", "i", "t">>
GITIGNORE == <<".", "g", "i", "t", "i", "g", "n", "o", "r", "e">>

\* Path::join with a single-component name.
Join(path, name) == Append(path, name)

RECURSIVE ToStr(_)
\* Path::to_str: the components joined by the platform separator.
ToStr(path) ==
    IF path = <<>> THEN <<>>
    ELSE IF Len(path) = 1 THEN path[1]
    ELSE ToStr(SubSeq(path, 1, Len(path) - 1)) \o <<MAIN_SEPARATOR>> \o path[Len(path)]

\* pathdiff::diff_paths(path, base), base an ancestor of path.
diff_paths(path, base) ==
    IF IsPrefix(base, path) THEN SubSeq(path, Len(base) + 1, Len(path)) ELSE path

\* path.ancestors().nth(n)
AncestorNth(path, n) == SubSeq(path, 1, Len(path) - n)

\* relative_path.to_str().unwrap().replace("\\", "/")
UnixStr(rel) == Replace(ToStr(rel), "\\", "/")

----------------------------------------------------------------------------
(* The filesystem.                                                         *)

\* fs::read_dir(dir): the paths of the children of dir.
Children(dir) == {p \in DOMAIN fs : Len(p) = Len(dir) + 1 /\ IsPrefix(dir, p)}

Exists(p) == p \in DOMAIN fs

Leaf(p) == p[Len(p)]

RECURSIVE SortByName(_)
\* files.sort_by(|a, b| a.name.cmp(&b.name)) on entries with distinct names.
SortByName(S) ==
    IF S = {} THEN <<>>
    ELSE LET m == CHOOSE x \in S : \A y \in S : StrCmp(x.name, y.name) # "Greater"
         IN <<m>> \o SortByName(S \ {m})

----------------------------------------------------------------------------
(* The ignore chain (the `ignore` crate's Gitignore, for patterns without  *)
(* an inner slash: a glob over the basename, "!" to whitelist, a trailing  *)
(* "/" to match directories only).                                         *)

RECURSIVE GlobMatch(_, _)
\* A glob with "*" (any run of characters) against a basename.
GlobMatch(g, s) ==
    IF g = <<>> THEN s = <<>>
    ELSE IF Head(g) = "*"
         THEN GlobMatch(Tail(g), s) \/ (s # <<>> /\ GlobMatch(g, Tail(s)))
    ELSE s # <<>> /\ Head(g) = Head(s) /\ GlobMatch(Tail(g), Tail(s))

\* GitignoreBuilder::add_line: one line of a .gitignore file.
ParseLine(line) ==
    LET neg == line # <<>> /\ Head(line) = "!"
        rest == IF neg THEN Tail(line) ELSE line
        dir_only == rest # <<>> /\ rest[Len(rest)] = "/"
    IN [is_whitelist |-> neg,
        is_only_dir |-> dir_only,
        glob |-> IF dir_only THEN SubSeq(rest, 1, Len(rest) - 1) ELSE rest]

\* GitignoreBuilder::new(root) ... build(): a matcher rooted at root.
BuildMatcher(root, lines) ==
    [root |-> root, globs |-> [k \in 1..Len(lines) |-> ParseLine(lines[k])]]

\* Gitignore::matched_stripped: the last glob of the file that matches decides.
matched_stripped(m, path, is_dir) ==
    LET hits == {k \in 1..Len(m.globs) :
                    /\ GlobMatch(m.globs[k].glob, FileNameStr(path))
                    /\ (m.globs[k].is_only_dir => is_dir)}
    IN IF hits = {} THEN "None"
       ELSE LET k == CHOOSE h \in hits : \A j \in hits : j <= h
            IN IF m.globs[k].is_whitelist THEN "Whitelist" ELSE "Ignore"

RECURSIVE matched_path_or_any_parents(_, _, _)
\* Gitignore::matched_path_or_any_parents: the path, then each parent as a
\* directory, until one matches.
matched_path_or_any_parents(m, path, is_dir) ==
    IF m.globs = <<>> THEN "None"
    ELSE LET r == matched_stripped(m, path, is_dir)
         IN IF r # "None" THEN r
            ELSE IF ParentStr(path) = <<>> THEN "None"
            ELSE matched_path_or_any_parents(m, ParentStr(path), TRUE)

\* The loop over the chain taken from its far end: the outermost matcher that
\* whitelists or ignores decides.
ChainVerdictOutermostFirst(ignores, name, is_dir) ==
    LET decisive == {k \in 1..Len(ignores) :
                        matched_path_or_any_parents(ignores[k], name, is_dir) # "None"}
    IN IF decisive = {} THEN "None"
       ELSE matched_path_or_any_parents(
                ignores[CHOOSE k \in decisive : \A j \in decisive : j <= k],
                name, is_dir)

RECURSIVE ChainVerdict(_, _, _)
\* The loop over the chain in is_ignored and directory_has_one_trackable_file:
\* the first matcher that whitelists or ignores ends it.
ChainVerdict(ignores, name, is_dir) ==
    IF ignores = <<>> THEN "None"
    ELSE LET matched == matched_path_or_any_parents(Head(ignores), name, is_dir)
         IN IF matched = "Whitelist" THEN "Whitelist"
            ELSE IF matched = "Ignore" THEN "Ignore"
            ELSE ChainVerdict(Tail(ignores), name, is_dir)

\* The chain with the directory's matcher put last instead of first.
update_ignores_appending(path, ignores) ==
    LET ignore_file == Join(path, GITIGNORE)
    IN IF ~Exists(ignore_file) THEN ignores
       ELSE ignores \o <<BuildMatcher(path, IF fs[ignore_file].is_dir THEN <<>>
                                             ELSE fs[ignore_file].lines)>>

\* update_ignores: a .gitignore in path puts its matcher in front of the chain.
update_ignores(path, ignores) ==
    LET ignore_file == Join(path, GITIGNORE)
    IN IF ~Exists(ignore_file) THEN ignores
       ELSE <<BuildMatcher(path, IF fs[ignore_file].is_dir THEN <<>>
                                 ELSE fs[ignore_file].lines)>> \o ignores

RECURSIVE directory_has_one_trackable_file(_, _, _)
\* Some file below dir is not ignored by the chain (the names are relative
\* to root).
directory_has_one_trackable_file(root, dir, ignores) ==
    \E path \in Children(dir) :
        IF ~fs[path].is_dir
        THEN ChainVerdict(ignores, UnixStr(diff_paths(path, root)), FALSE) # "Ignore"
        ELSE directory_has_one_trackable_file(root, path, ignores)

----------------------------------------------------------------------------
(* Entries, steps and tasks.                                               *)

StatusEntry(name, state) == [name |-> name, state |-> state]

NoTask == [kind |-> "none", path |-> <<>>, depth |-> 0, ignores |-> <<>>,
           name |-> <<>>, sha |-> 0]
DirTask(path, depth, ignores) ==
    [kind |-> "dir", path |-> path, depth |-> depth, ignores |-> ignores,
     name |-> <<>>, sha |-> 0]
SubTask(name, path, sha) ==
    [kind |-> "sub", path |-> path, depth |-> 0, ignores |-> <<>>,
     name |-> name, sha |-> sha]

\* What a task does that another thread can see, in program order.
PushStep(entry) == [op |-> "push", entry |-> entry, task |-> NoTask]
SpawnStep(task) == [op |-> "spawn", entry |-> StatusEntry(<<>>, "Current"), task |-> task]
PanicStep == [op |-> "panic", entry |-> StatusEntry(<<>>, "Current"), task |-> NoTask]

\* ReadDirEntry::path
EntryPath(entry) == Join(entry.parent_path, entry.name)

\* The ReadDirEntry read_dir builds for the child at path p: the mtime in
\* whole seconds since the epoch (the values here are far below 2^32).
ReadDirEntry(p, parent_path, depth) ==
    [name |-> Leaf(p),
     is_dir |-> fs[p].is_dir,
     process |-> TRUE,
     stat |-> [mtime |-> fs[p].mtime.secs, size |-> fs[p].len],
     parent_path |-> parent_path,
     depth |-> depth]

get_relative_entry_path_name(entry) ==
    LET path == EntryPath(entry)
        root == AncestorNth(path, entry.depth)
    IN UnixStr(diff_paths(path, root))

----------------------------------------------------------------------------
(* The per-directory comparator.                                           *)

\* is_ignored searching every directory that is not whitelisted, ignored
\* ones included, for a file that is not ignored.
is_ignored_searching_ignored(entry, name, ignores) ==
    LET matched == ChainVerdict(ignores, name, entry.is_dir)
    IN IF matched = "Whitelist" THEN FALSE
       ELSE IF entry.is_dir
            THEN LET path == EntryPath(entry)
                     root == AncestorNth(path, entry.depth)
                 IN ~directory_has_one_trackable_file(root, path, ignores)
       ELSE matched = "Ignore"

\* is_ignored: the chain, then for a directory nobody matched a search for
\* one file that is not ignored.
is_ignored(entry, name, ignores) ==
    LET matched == ChainVerdict(ignores, name, entry.is_dir)
    IN IF matched = "Whitelist" THEN FALSE
       ELSE IF matched = "Ignore" THEN TRUE
       ELSE IF entry.is_dir
            THEN LET path == EntryPath(entry)
                     root == AncestorNth(path, entry.depth)
                 IN ~directory_has_one_trackable_file(root, path, ignores)
       ELSE FALSE

\* What a process_* function hands back to get_file_deltas: the entry to push
\* (if any), the task it spawned (if any), and the entry's process flag.
Outcome(out, spawn, process) == [out |-> out, spawn |-> spawn, process |-> process]

process_new_item(dir_entry, idx, ignores) ==
    LET name == get_relative_entry_path_name(dir_entry)
    IN IF dir_entry.is_dir /\ name \in DOMAIN idx
       THEN Outcome(<<>>, <<>>, dir_entry.process)
       ELSE LET process == IF dir_entry.is_dir THEN FALSE ELSE dir_entry.process
            IN IF is_ignored(dir_entry, name, ignores)
               THEN Outcome(<<>>, <<>>, process)
               ELSE Outcome(<<StatusEntry(IF dir_entry.is_dir THEN Append(name, "/")
                                          ELSE name, "New")>>, <<>>, process)

\* process_deleted_item without the test for a submodule.
process_deleted_item_any(index_entry) ==
    Outcome(<<StatusEntry(index_entry.name, "Deleted")>>, <<>>, TRUE)

process_deleted_item(index_entry) ==
    IF index_entry.object_type = "GitLink"
    THEN Outcome(<<>>, <<>>, TRUE)
    ELSE Outcome(<<StatusEntry(index_entry.name, "Deleted")>>, <<>>, TRUE)

\* submodule_status: the probe is spawned on the scope.
submodule_status(dir_entry, index_entry) ==
    SubTask(get_relative_entry_path_name(dir_entry), EntryPath(dir_entry),
            index_entry.sha)

\* process_tracked_item comparing the sizes only.
process_tracked_item_size_only(dir_entry, index_entry) ==
    IF dir_entry.is_dir
    THEN Outcome(<<>>, <<submodule_status(dir_entry, index_entry)>>, FALSE)
    ELSE IF dir_entry.stat.size # index_entry.stat.size
    THEN Outcome(<<StatusEntry(get_relative_entry_path_name(dir_entry), "Modified")>>,
                 <<>>, dir_entry.process)
    ELSE Outcome(<<>>, <<>>, dir_entry.process)

process_tracked_item(dir_entry, index_entry) ==
    IF dir_entry.is_dir
    THEN Outcome(<<>>, <<submodule_status(dir_entry, index_entry)>>, FALSE)
    ELSE IF dir_entry.stat # index_entry.stat
    THEN Outcome(<<StatusEntry(get_relative_entry_path_name(dir_entry), "Modified")>>,
                 <<>>, dir_entry.process)
    ELSE Outcome(<<>>, <<>>, dir_entry.process)

\* The steps an outcome adds: the spawn happens inside process_tracked_item,
\* the push after the process_* function has returned.
OutcomeSteps(o) ==
    [k \in 1..Len(o.spawn) |-> SpawnStep(o.spawn[k])]
    \o [k \in 1..Len(o.out) |-> PushStep(o.out[k])]

RECURSIVE get_file_deltas_from(_, _, _, _, _, _, _)
\* The merge loop of get_file_deltas with its cursors at w and i; steps are
\* the steps so far, worktree carries the process flags set so far.
get_file_deltas_from(worktree, index_entry, idx, ignores, w, i, steps) ==
    IF w <= Len(worktree)
    THEN LET w_file == worktree[w]
             ord == IF i <= Len(index_entry)
                    THEN StrCmp(w_file.name, index_entry[i].name)
                    ELSE "Less"
         IN IF ord = "Equal"
            THEN LET o == process_tracked_item(w_file, index_entry[i])
                 IN get_file_deltas_from([worktree EXCEPT ![w].process = o.process],
                                         index_entry, idx, ignores, w + 1, i + 1,
                                         steps \o OutcomeSteps(o))
            ELSE IF ord = "Less"
            THEN LET o == process_new_item(w_file, idx, ignores)
                 IN get_file_deltas_from([worktree EXCEPT ![w].process = o.process],
                                         index_entry, idx, ignores, w + 1, i,
                                         steps \o OutcomeSteps(o))
            ELSE LET o == process_deleted_item(index_entry[i])
                 IN get_file_deltas_from(worktree, index_entry, idx, ignores, w, i + 1,
                                         steps \o OutcomeSteps(o))
    ELSE IF i <= Len(index_entry)
    THEN LET o == process_deleted_item(index_entry[i])
         IN get_file_deltas_from(worktree, index_entry, idx, ignores, w, i + 1,
                                 steps \o OutcomeSteps(o))
    ELSE [files |-> worktree, steps |-> steps]

get_file_deltas(worktree, index_entry, idx, ignores) ==
    get_file_deltas_from(worktree, index_entry, idx, ignores, 1, 1, <<>>)

\* process_directory for the directory at path of the repository at root.
process_directory(root, idx, path, ignores0, files) ==
    LET ignores == update_ignores(path, ignores0)
        unix_path == UnixStr(diff_paths(path, root))
    IN IF unix_path \notin DOMAIN idx
       THEN [files |-> files, steps |-> <<>>, ignores |-> ignores]
       ELSE LET d == get_file_deltas(files, idx[unix_path], idx, ignores)
            IN [files |-> d.files, steps |-> d.steps, ignores |-> ignores]

\* The listing without the sort: in the order the file system hands the
\* names out, here descending.
ListingUnsorted(path, depth) ==
    LET sorted == SortByName({ReadDirEntry(p, path, depth) :
                                 p \in {q \in Children(path) : Leaf(q) # GIT}})
    IN [k \in 1..Len(sorted) |-> sorted[Len(sorted) + 1 - k]]

\* The sorted listing read_dir hands to process_directory.
Listing(path, depth) ==
    SortByName({ReadDirEntry(p, path, depth) : p \in {q \in Children(path) : Leaf(q) # GIT}})

\* read_dir: the unwrap of a failed fs::read_dir panics; else the comparator's
\* steps, then one spawn per subdirectory left to process, in listing order.
read_dir(root, idx, task) ==
    LET r == process_directory(root, idx, task.path, task.ignores,
                               Listing(task.path, task.depth))
        to_process == SelectSeq(r.files, LAMBDA f : f.is_dir /\ f.process)
    IN IF fs[task.path].denied THEN <<PanicStep>>
       ELSE r.steps
            \o [k \in 1..Len(to_process) |->
                  SpawnStep(DirTask(Join(task.path, to_process[k].name),
                                    task.depth + 1, r.ignores))]

----------------------------------------------------------------------------
(* The submodule probe, and a whole scope run by one thread.               *)

RECURSIVE TaskSteps(_, _, _)
RECURSIVE submodule_flags(_)
RECURSIVE run_scope(_, _, _, _, _, _)

\* WorkTree::scoped_diff: the root task of a scope.
RootTask(path) == DirTask(path, 1, <<BuildMatcher(<<>>, global_ignore)>>)

\* WorkTree::diff_against_index run to its end by one worker, the tasks taken
\* in the order they were spawned.
diff_against_index(path, idx) ==
    run_scope(path, idx, <<RootTask(path)>>, <<>>, FALSE, 0)

\* The locals of submodule_spawned_status: whether an unwrap in it panics,
\* its three flags, and (history) how many probes the nested
\* diff_against_index started.
submodule_flags(task) ==
    IF ~Exists(task.path) \/ fs[task.path].repo = {}
    THEN [panicked |-> TRUE, new_commits |-> FALSE, modified_content |-> FALSE,
          untracked_content |-> FALSE, probes |-> 0]
    ELSE LET repo == CHOOSE r \in fs[task.path].repo : TRUE
             work_tree_diff == diff_against_index(task.path, repo.index)
         IN [panicked |-> work_tree_diff.panicked,
             new_commits |-> task.sha # repo.head,
             modified_content |-> repo.staged,
             untracked_content |-> work_tree_diff.entries # <<>>,
             probes |-> work_tree_diff.probes]

\* submodule_spawned_status
submodule_spawned_status(task) ==
    LET f == submodule_flags(task)
    IN IF f.panicked THEN <<PanicStep>>
       ELSE IF f.modified_content \/ f.untracked_content \/ f.new_commits
       THEN <<PushStep(StatusEntry(task.name, "Modified"))>>
       ELSE <<>>

TaskSteps(root, idx, task) ==
    IF task.kind = "dir" THEN read_dir(root, idx, task)
    ELSE submodule_spawned_status(task)

StepEntries(steps) ==
    LET pushes == SelectSeq(steps, LAMBDA s : s.op = "push")
    IN [k \in 1..Len(pushes) |-> pushes[k].entry]

StepTasks(steps) ==
    LET spawns == SelectSeq(steps, LAMBDA s : s.op = "spawn")
    IN [k \in 1..Len(spawns) |-> spawns[k].task]

\* The steps of a task up to the one it panics in.
UntilPanic(steps) ==
    LET at == {k \in 1..Len(steps) : steps[k].op = "panic"}
    IN IF at = {} THEN steps
       ELSE SubSeq(steps, 1, (CHOOSE k \in at : \A j \in at : k <= j) - 1)

run_scope(root, idx, queue, acc, pan, probes) ==
    IF queue = <<>> THEN [entries |-> acc, panicked |-> pan, probes |-> probes]
    ELSE LET all == TaskSteps(root, idx, Head(queue))
             steps == UntilPanic(all)
             probed == IF Head(queue).kind = "sub"
                       THEN 1 + submodule_flags(Head(queue)).probes ELSE 0
         IN run_scope(root, idx, Tail(queue) \o StepTasks(steps),
                      acc \o StepEntries(steps), pan \/ steps # all, probes + probed)

----------------------------------------------------------------------------
(* The index (src/src/index.rs).                                           *)

\* Duration::as_nanos: the nanoseconds of one second.
NanosPerSec == 1000000000

\* Index::get_directory_entry: the list of directory `name`, every missing
\* ancestor inserted with an empty list.  Returns the map.
\* get_directory_entry inserting the directory alone, without its ancestors.
get_directory_entry_alone(name, directory_map) ==
    IF name \in DOMAIN directory_map THEN directory_map
    ELSE [k \in DOMAIN directory_map \cup {name} |->
            IF k \in DOMAIN directory_map THEN directory_map[k] ELSE <<>>]

get_directory_entry(name, directory_map) ==
    IF name \in DOMAIN directory_map THEN directory_map
    ELSE [k \in DOMAIN directory_map \cup AncestorStrs(name) |->
            IF k \in DOMAIN directory_map THEN directory_map[k] ELSE <<>>]

\* The end of Index::read_entry: the path split into directory and leaf.
DirectoryAndEntry(e) ==
    [directory |-> ParentStr(e.name),
     entry |-> [name |-> FileNameStr(e.name),
                stat |-> [mtime |-> e.mtime_s * NanosPerSec + e.mtime_ns,
                          size |-> e.size],
                object_type |-> e.object_type, sha |-> e.sha]]

RECURSIVE IndexEntries(_, _)
\* The loop of Index::new over the entries in file order.
IndexEntries(raw, directory_map) ==
    IF raw = <<>> THEN directory_map
    ELSE LET d == DirectoryAndEntry(Head(raw))
             m == get_directory_entry(d.directory, directory_map)
         IN IndexEntries(Tail(raw), [m EXCEPT ![d.directory] = Append(@, d.entry)])

IndexNew(raw) == IndexEntries(raw, <<>>)

----------------------------------------------------------------------------
(* The index file, byte by byte.                                           *)

\* The characters of the names, and String::from_utf8 on ASCII bytes.
Alphabet ==
    {"NUL", "!", "*", ".", "/", "@", "C", "D", "I", "R", "\\", "a", "b", "c", "d", "e", "g", "i", "k",
     "m", "n", "o", "r", "s", "t", "u", "v", "x", "y", "z"}
Chr(b) == CHOOSE c \in Alphabet : Ord(c) = b
from_utf8(bytes) == [k \in 1..Len(bytes) |-> Chr(bytes[k])]
as_bytes(str) == [k \in 1..Len(str) |-> Ord(str[k])]

\* to_be_bytes of a u16 and a u32, and nom's be_u16 and be_u32.
be_bytes_u16(n) == <<(n \div 256) % 256, n % 256>>
be_bytes_u32(n) == <<(n \div 16777216) % 256, (n \div 65536) % 256>> \o be_bytes_u16(n)
be_u16(b) == b[1] * 256 + b[2]
be_u32(b) == ((b[1] * 256 + b[2]) * 256 + b[3]) * 256 + b[4]

Zeros(n) == [k \in 1..n |-> 0]

\* The 20 bytes of the object id the model calls sha.
Oid(sha) == [k \in 1..20 |-> sha]

\* An entry as Git writes it: ctime, mtime, dev, ino, mode, uid, gid, size,
\* object id, the flags (extended bit, 2 bits of stage, 12 bits of name length), in
\* version 3 a second flags word when the extended bit is set, the path, and
\* 1 to 8 NUL bytes up to a multiple of 8.
EntryBytes(e) ==
    LET fixed == Zeros(8) \o be_bytes_u32(e.mtime_s) \o be_bytes_u32(e.mtime_ns)
                 \o Zeros(8) \o be_bytes_u32(e.mode) \o Zeros(8)
                 \o be_bytes_u32(e.size) \o Oid(e.sha)
                 \o be_bytes_u16((IF e.extended # 0 THEN 16384 ELSE 0)
                                 + e.stage * 4096 + Len(e.path))
                 \o (IF e.extended # 0 THEN be_bytes_u16(e.extended) ELSE <<>>)
                 \o as_bytes(e.path)
    IN fixed \o Zeros(8 - (Len(fixed) % 8))

RECURSIVE FileBytes(_)
FileBytes(es) == IF es = <<>> THEN <<>> ELSE EntryBytes(Head(es)) \o FileBytes(Tail(es))

\* nom's bits!: the bits of the bytes, the high bit of each byte first, and
\* the number take_bits! reads from a run of them.
BitsOf(input) ==
    [k \in 1..8 * Len(input) |->
        (input[(k - 1) \div 8 + 1] \div 2 ^ (7 - ((k - 1) % 8))) % 2]

RECURSIVE BitsValue(_)
BitsValue(bits) ==
    IF bits = <<>> THEN 0
    ELSE 2 * BitsValue(SubSeq(bits, 1, Len(bits) - 1)) + bits[Len(bits)]

\* parse_name_size reading 2 bits and then 14: the stage is part of the size.
parse_name_size_with_stage(input) ==
    LET bits == BitsOf(SubSeq(input, 1, 2))
    IN BitsValue(SubSeq(bits, 3, 16))

\* parse_name_size: 2 bits, 2 bits and 12 bits of the flags; the last is
\* the size.
parse_name_size(input) ==
    LET bits == BitsOf(SubSeq(input, 1, 2))
        b == <<BitsValue(SubSeq(bits, 1, 2)), BitsValue(SubSeq(bits, 3, 4)),
               BitsValue(SubSeq(bits, 5, 16))>>
    IN b[3]

\* The object type read_entry derives from the mode.
ObjectTypeOf(mode) ==
    IF mode \div 4096 = 14 THEN "GitLink"
    ELSE IF mode \div 4096 = 10 THEN "SymLink"
    ELSE "Regular"

\* The signature of an index file.
DIRC == <<"D", "I", "R", "C">>

\* The header of a file as Git writes it: signature, version, entry count.
HeaderBytes(signature, version, count) ==
    as_bytes(signature) \o be_bytes_u32(version) \o be_bytes_u32(count)

\* Index::read_header: "err" when the stream does not start with the
\* signature or ends before the two numbers, else the stream left and the
\* Header with whatever version is written.
read_header(stream) ==
    IF Len(stream) < 12 \/ SubSeq(stream, 1, 4) # as_bytes(DIRC) THEN [kind |-> "err"]
    ELSE [kind |-> "ok", output |-> SubSeq(stream, 13, Len(stream)),
          header |-> [version |-> be_u32(SubSeq(stream, 5, 8)),
                      entries |-> be_u32(SubSeq(stream, 9, 12))]]

\* The padding read_entry skips after a name: none when the entry already
\* ends on a multiple of 8.
padding_to_boundary(name_size) == (8 - ((62 + name_size) % 8)) % 8

\* The padding read_entry skips after a name of name_size bytes.
padding(name_size) == 8 - ((62 + name_size) % 8)

\* The do_parse! of read_entry: "err" when the stream ends before the entry
\* does, else the stream left and the fields.
parse_entry(stream) ==
    IF Len(stream) < 62 THEN [kind |-> "err"]
    ELSE LET name_size == parse_name_size(SubSeq(stream, 61, 62))
         IN IF Len(stream) < 62 + name_size + padding(name_size) THEN [kind |-> "err"]
            ELSE [kind |-> "ok",
                  output |-> SubSeq(stream, 63 + name_size + padding(name_size),
                                    Len(stream)),
                  mtime_s |-> be_u32(SubSeq(stream, 9, 12)),
                  mtime_ns |-> be_u32(SubSeq(stream, 13, 16)),
                  mode |-> be_u16(SubSeq(stream, 27, 28)),
                  size |-> be_u32(SubSeq(stream, 37, 40)),
                  sha |-> SubSeq(stream, 41, 60),
                  full_name |-> from_utf8(SubSeq(stream, 63, 62 + name_size))]

\* Index::read_entry: "err" when the parse fails, "panic" when the path has
\* no parent (the empty name), else the stream left, the directory and the
\* entry.
read_entry(stream) ==
    LET f == parse_entry(stream)
    IN IF f.kind = "err" THEN [kind |-> "err"]
       ELSE IF f.full_name = <<>> THEN [kind |-> "panic"]
       ELSE LET d == DirectoryAndEntry(
                         [name |-> f.full_name, mtime_s |-> f.mtime_s,
                          mtime_ns |-> f.mtime_ns, size |-> f.size,
                          object_type |-> ObjectTypeOf(f.mode), sha |-> f.sha])
            IN [kind |-> "ok", output |-> f.output, directory |-> d.directory,
                entry |-> d.entry]

----------------------------------------------------------------------------
(* Working trees and indexes the runs start from.                          *)

RootPath == << <<"r">> >>

A == <<"a">>
AB == <<"a", "b">>
B == <<"b">>
C == <<"c">>
D == <<"d">>
M == <<"m">>
S == <<"s">>
T == <<"t">>
U == <<"u">>
E == <<"e">>
N == <<"n">>
X == <<"x">>

FileNode(mtime, len, lines) ==
    [is_dir |-> FALSE, mtime |-> [secs |-> mtime, nanos |-> 0], len |-> len,
     lines |-> lines, repo |-> {}, denied |-> FALSE]
DirNode(repo) ==
    [is_dir |-> TRUE, mtime |-> [secs |-> 1, nanos |-> 0], len |-> 0,
     lines |-> <<>>, repo |-> repo, denied |-> FALSE]
\* A directory fs::read_dir fails on.
DeniedDir == [DirNode({}) EXCEPT !.denied = TRUE]

RECURSIVE GitPath(_)
\* The path of an entry as git writes it in the index: "/" between components.
GitPath(rel) ==
    IF rel = <<>> THEN <<>>
    ELSE IF Len(rel) = 1 THEN rel[1]
    ELSE GitPath(SubSeq(rel, 1, Len(rel) - 1)) \o <<"/">> \o rel[Len(rel)]

RawEntry(rel, mtime_s, mtime_ns, size, object_type, sha) ==
    [name |-> GitPath(rel), mtime_s |-> mtime_s, mtime_ns |-> mtime_ns,
     size |-> size, object_type |-> object_type, sha |-> sha]

\* A piece of a scenario: nodes on disk and entries of the index file.
Piece(nodes, raw) == [nodes |-> nodes, raw |-> raw]
Node(dir, rel, node) == [path |-> dir \o rel, node |-> node]
AllOf(pieces) ==
    Piece(UNION {p.nodes : p \in pieces}, UNION {p.raw : p \in pieces})

\* The working tree holding the nodes of a piece: every directory above a
\* node exists, the root holds a .git directory.
MkFs(piece) ==
    LET given == {n.path : n \in piece.nodes}
        above == UNION {{SubSeq(p, 1, k) : k \in Len(RootPath)..Len(p)} :
                            p \in given \cup {RootPath \o <<GIT, X>>}}
    IN [p \in given \cup above |->
          IF p \in given THEN (CHOOSE n \in piece.nodes : n.path = p).node
          ELSE IF p = RootPath \o <<GIT, X>> THEN FileNode(1, 1, <<>>)
          ELSE DirNode({})]

\* The index git wrote for the entries of a piece: in path order.
MkIndex(piece) == IndexNew(SortByName(piece.raw))

\* One path of the repository: absent, untracked, deleted from disk, or
\* tracked, recorded with mtime_s rec, no nanoseconds and size 1, with some
\* stat on disk.
FileCases(stats, recorded) ==
    {[k |-> "none", mtime |-> 1, size |-> 1, rec |-> 0],
     [k |-> "new", mtime |-> 1, size |-> 1, rec |-> 0],
     [k |-> "deleted", mtime |-> 1, size |-> 1, rec |-> 0]}
    \cup {[k |-> "tracked", mtime |-> st[1], size |-> st[2], rec |-> r] :
            st \in stats, r \in recorded}

FilePiece(rel, c) ==
    Piece(IF c.k \in {"new", "tracked"}
          THEN {Node(RootPath, rel, FileNode(c.mtime, c.size, <<>>))} ELSE {},
          IF c.k \in {"deleted", "tracked"}
          THEN {RawEntry(rel, c.rec, 0, 1, "Regular", 0)} ELSE {})

\* The chain of directories b, b/b, ... of depth d.
ChainDir(d) == [k \in 1..d |-> B]

\* A submodule at s recorded with commit 1: absent from disk, a checkout
\* whose file t has the epoch as mtime (the walker and the index agree on it), a checkout whose HEAD moved to commit 2, or a directory that is
\* no repository.
SubCases == {"none", "missing", "clean", "commits", "broken"}

SubRepo(head) ==
    [index |-> IndexNew(<<RawEntry(<<T>>, 0, 0, 1, "Regular", 0)>>),
     head |-> head, staged |-> FALSE]

SubPiece(c) ==
    Piece(IF c \in {"clean", "commits"}
          THEN {Node(RootPath, <<S>>, DirNode({SubRepo(IF c = "clean" THEN 1 ELSE 2)})),
                Node(RootPath, <<S, GIT>>, FileNode(1, 1, <<>>)),
                Node(RootPath, <<S, T>>, FileNode(0, 1, <<>>))}
          ELSE IF c = "broken" THEN {Node(RootPath, <<S>>, DirNode({}))}
          ELSE {},
          IF c = "none" THEN {} ELSE {RawEntry(<<S>>, 1, 0, 0, "GitLink", 1)})

\* The state when diff_against_index enters its scope.
Start(piece, global) ==
    /\ fs = MkFs(piece)
    /\ index = MkIndex(piece)
    /\ global_ignore = global
    /\ pending = {RootTask(RootPath)}
    /\ running = {}
    /\ changed_files = <<>>
    /\ entries = <<>>
    /\ panicked = FALSE
    /\ started = {}
    /\ pc = "scope"
    /\ file = <<>>
    /\ header = [version |-> 2, entries |-> 0]
    /\ contents = <<>>
    /\ parsed = <<>>

\* Trees: a file m in the root, a directory c with a file, the chain
\* b, b/b, ... with a file at each level, and a submodule s.
TreePaths == {<<M>>, <<C, X>>} \cup {ChainDir(d) \o <<X>> : d \in 1..MaxDepth}

\* A tracked file of a tree has the mtime the index recorded: the epoch or
\* one second after it.
TreeCases ==
    {c \in FileCases({<<0, 1>>, <<1, 1>>}, {0, 1}) : c.k = "tracked" => c.mtime = c.rec}

Init ==
    \E ch \in [TreePaths -> TreeCases], sub \in SubCases :
        Start(AllOf({FilePiece(p, ch[p]) : p \in TreePaths} \cup {SubPiece(sub)}), <<>>)

\* Flat directories: the directory at the end of the chain of depth d holds
\* the files a, ab, c, each absent, untracked, deleted, or tracked with any
\* size and mtime 0 or 1 on disk, and recorded mtime 0 or 1.
FlatNames == {A, AB, C}

InitFlat ==
    \E d \in 0..MaxDepth,
       ch \in [FlatNames -> FileCases((0..1) \X (1..MaxStat), {0, 1})] :
        Start(AllOf({FilePiece(ChainDir(d) \o <<n>>, ch[n]) : n \in FlatNames}
                    \cup {Piece({Node(RootPath, ChainDir(k), DirNode({})) : k \in 1..d},
                                {})}),
              <<>>)

\* Ignore files: lines a global excludes file or a .gitignore may hold.
I_STAR == <<"i", "*">>
NOT_I_STAR == <<"!", "i", "*">>
K_STAR == <<"k", "*">>
U_SLASH == <<"u", "/">>
NOT_U_STAR == <<"!", "u", "*">>

IgnoreFiles == {<<I_STAR>>, <<NOT_I_STAR>>, <<U_SLASH>>, <<I_STAR, NOT_U_STAR>>}

IgnorePiece(dir, gi) ==
    Piece({Node(RootPath, dir \o <<GITIGNORE>>, FileNode(1, 1, gi[k])) : k \in 1..Len(gi)},
          {})

\* What an untracked directory u holds: nothing, the file i, the file k, both,
\* or the directory v with the file i.
DirContents == {{}, {<<"i">>}, {<<"k">>}, {<<"i">>, <<"k">>}, {<<"v", "i">>}}

DirPiece(dir, present, holds) ==
    Piece(IF present
          THEN {Node(RootPath, dir, DirNode({}))}
               \cup {Node(RootPath, dir \o [k \in 1..Len(h) |-> <<h[k]>>],
                          FileNode(1, 1, <<>>)) : h \in holds}
          ELSE {},
          {})

\* Ignored and untracked paths: the index is empty, tracks t, or tracks t and
\* b/t; the root and b may hold a .gitignore; an untracked file i may lie in
\* the root and in b, an untracked directory u in the root or in b.
InitIgnore ==
    \E global \in {<<>>, <<K_STAR>>},
       tracked \in 0..2,
       root_gi \in {<<>>} \cup {<<g>> : g \in IgnoreFiles},
       b_gi \in {<<>>} \cup {<<g>> : g \in IgnoreFiles},
       root_i \in {"none", "new"},
       b_i \in {"none", "new"},
       u_at \in {<<>>, <<B>>},
       u_present \in BOOLEAN,
       u_holds \in DirContents :
        /\ u_present \/ u_holds = {}
        /\ Start(AllOf({FilePiece(<<T>>, [k |-> IF tracked >= 1 THEN "tracked" ELSE "none",
                                         mtime |-> 0, size |-> 1, rec |-> 0]),
                        FilePiece(<<B, T>>, [k |-> IF tracked >= 2 THEN "tracked" ELSE "none",
                                            mtime |-> 0, size |-> 1, rec |-> 0]),
                        FilePiece(<<<<"i">>>>, [k |-> root_i, mtime |-> 1, size |-> 1, rec |-> 0]),
                        FilePiece(<<B, <<"i">>>>, [k |-> b_i, mtime |-> 1, size |-> 1, rec |-> 0]),
                        IgnorePiece(<<>>, root_gi),
                        IgnorePiece(<<B>>, b_gi),
                        DirPiece(u_at \o <<U>>, u_present, u_holds)}),
                 global)

\* The repository git2 opens in a submodule directory: its index, the commit
\* HEAD points to, and whether its index differs from HEAD.
Repo(raw, head, staged) ==
    [index |-> IndexNew(SortByName(raw)), head |-> head, staged |-> staged]

\* A submodule recorded with commit 1: not recorded at all, absent from disk,
\* a directory that is no repository, or a checkout with HEAD at commit 1 or
\* 2, with or without staged changes, an untracked file u, an edit of its
\* tracked file t, and possibly a submodule n of its own (clean, holding an
\* untracked file, or no repository).
ModuleCases ==
    {[k |-> c, head |-> 1, staged |-> FALSE, new |-> FALSE, edit |-> FALSE,
      nested |-> "none"] : c \in {"none", "missing", "broken"}}
    \cup [k : {"repo"}, head : {1, 2}, staged : BOOLEAN, new : BOOLEAN,
          edit : BOOLEAN, nested : {"none", "clean", "dirty", "broken"}]

ModulePiece(at, c) ==
    Piece(IF c.k = "repo"
          THEN {Node(RootPath, at,
                     DirNode({Repo({RawEntry(<<T>>, 0, 0, 1, "Regular", 0)}
                                   \cup IF c.nested = "none" THEN {}
                                        ELSE {RawEntry(<<N>>, 1, 0, 0, "GitLink", 1)},
                                   c.head, c.staged)})),
                Node(RootPath, at \o <<GIT>>, FileNode(1, 1, <<>>)),
                Node(RootPath, at \o <<T>>, FileNode(0, IF c.edit THEN 2 ELSE 1, <<>>))}
               \cup (IF c.new THEN {Node(RootPath, at \o <<U>>, FileNode(1, 1, <<>>))}
                     ELSE {})
               \cup (IF c.nested \in {"clean", "dirty"}
                     THEN {Node(RootPath, at \o <<N>>,
                                DirNode({Repo({RawEntry(<<T>>, 0, 0, 1, "Regular", 0)},
                                              1, FALSE)})),
                           Node(RootPath, at \o <<N, GIT>>, FileNode(1, 1, <<>>)),
                           Node(RootPath, at \o <<N, T>>, FileNode(0, 1, <<>>))}
                     ELSE IF c.nested = "broken"
                     THEN {Node(RootPath, at \o <<N>>, DirNode({}))}
                     ELSE {})
               \cup (IF c.nested = "dirty"
                     THEN {Node(RootPath, at \o <<N, U>>, FileNode(1, 1, <<>>))}
                     ELSE {})
          ELSE IF c.k = "broken" THEN {Node(RootPath, at, DirNode({}))}
          ELSE {},
          IF c.k = "none" THEN {} ELSE {RawEntry(at, 1, 0, 0, "GitLink", 1)})

\* The tracked file x of directory dir: no such directory, the file in place,
\* the file gone from the directory, or a directory that cannot be listed.
DirCases == {"none", "dir", "gone", "denied"}

TrackedDirPiece(dir, c) ==
    Piece((IF c = "dir" THEN {Node(RootPath, dir \o <<X>>, FileNode(0, 1, <<>>))}
           ELSE {})
          \cup (IF c = "gone" THEN {Node(RootPath, dir, DirNode({}))} ELSE {})
          \cup (IF c = "denied" THEN {Node(RootPath, dir, DeniedDir)} ELSE {}),
          IF c = "none" THEN {} ELSE {RawEntry(dir \o <<X>>, 0, 0, 1, "Regular", 0)})

\* Submodules: the root holds a submodule e, a file m and a directory c.
InitSub ==
    \E mod \in ModuleCases, m \in TreeCases, c \in DirCases :
        Start(AllOf({ModulePiece(<<E>>, mod), FilePiece(<<M>>, m),
                     TrackedDirPiece(<<C>>, c)}),
              <<>>)

\* Merge conflicts: the index holds the file m at stage 0 or at some of the
\* stages 1, 2, 3 (one entry per stage, each with the blob of its side); m
\* is on disk or not; a file a before it and a file t after it.
StagesPiece(rel, stages, on_disk) ==
    Piece(IF on_disk THEN {Node(RootPath, rel, FileNode(0, 1, <<>>))} ELSE {},
          {RawEntry(rel, 0, 0, 1, "Regular", stage) : stage \in stages})

InitMerge ==
    \E stages \in {{0}, {2, 3}, {1, 3}, {1, 2, 3}}, on_disk \in BOOLEAN,
       a \in FileCases({<<0, 1>>}, {0}), t \in FileCases({<<0, 1>>}, {0}) :
        Start(AllOf({StagesPiece(<<M>>, stages, on_disk),
                     FilePiece(<<A>>, a), FilePiece(<<T>>, t)}),
              <<>>)

\* Termination: the root holds a tracked file m, the directories c and d
\* (each absent, in place, emptied or unreadable) and a submodule e (absent,
\* a clean checkout, a checkout with an untracked file, or no repository).
FairModuleCases ==
    {[k |-> "none", head |-> 1, staged |-> FALSE, new |-> FALSE, edit |-> FALSE,
      nested |-> "none"],
     [k |-> "repo", head |-> 1, staged |-> FALSE, new |-> FALSE, edit |-> FALSE,
      nested |-> "none"],
     [k |-> "repo", head |-> 1, staged |-> FALSE, new |-> TRUE, edit |-> FALSE,
      nested |-> "none"],
     [k |-> "broken", head |-> 1, staged |-> FALSE, new |-> FALSE, edit |-> FALSE,
      nested |-> "none"]}

InitFair ==
    \E mod \in FairModuleCases, c \in DirCases, d \in DirCases :
        Start(AllOf({ModulePiece(<<E>>, mod),
                     FilePiece(<<M>>, [k |-> "tracked", mtime |-> 0, size |-> 1, rec |-> 0]),
                     TrackedDirPiece(<<C>>, c), TrackedDirPiece(<<D>>, d)}),
              <<>>)

\* The entries of an index file: a plain file, stage 2 of an executable in
\* a merge conflict, with a later mtime and a size of two bytes' width, a
\* submodule, and a file with the skip-worktree bit in the second flags word
\* of version 3.
EntryKinds ==
    {[mtime_s |-> 0, mtime_ns |-> 0, mode |-> 33188, size |-> 1, sha |-> 1,
      extended |-> 0, stage |-> 0],
     [mtime_s |-> 1, mtime_ns |-> 5, mode |-> 33261, size |-> 300, sha |-> 2,
      extended |-> 0, stage |-> 2],
     [mtime_s |-> 1, mtime_ns |-> 0, mode |-> 57344, size |-> 0, sha |-> 3,
      extended |-> 0, stage |-> 0],
     [mtime_s |-> 0, mtime_ns |-> 0, mode |-> 33188, size |-> 1, sha |-> 1,
      extended |-> 16384, stage |-> 0]}

IndexPaths == {GitPath(<<C>>), GitPath(<<M>>), GitPath(<<D, X>>), GitPath(<<D, E, X>>)}

IndexEntry(path, k) ==
    [path |-> path, mtime_s |-> k.mtime_s, mtime_ns |-> k.mtime_ns, mode |-> k.mode,
     size |-> k.size, sha |-> k.sha, extended |-> k.extended, stage |-> k.stage]

\* The index files of up to MaxEntries entries with different paths, in any
\* order; Git writes version 3 when an entry needs the second flags word.
IndexFiles ==
    UNION {{f \in [1..n -> {IndexEntry(p, k) : p \in IndexPaths, k \in EntryKinds}] :
               \A i, j \in 1..n : i # j => f[i].path # f[j].path} : n \in 0..MaxEntries}

\* The files of one plain entry whose name is a run of n letters, for the
\* lengths up to MaxName and the longest the flags can hold.
NameLengths == 0..MaxName \cup {4095}

LongNameFiles ==
    {<<IndexEntry([j \in 1..n |-> "a"],
                  [mtime_s |-> 0, mtime_ns |-> 0, mode |-> 33188, size |-> 1,
                   sha |-> 1, extended |-> 0, stage |-> 0])>> : n \in NameLengths}

\* The versions a file is written with: 2, or 3 when an entry needs the
\* second flags word, and for the files of at most one entry also 4.
HeaderVersions(f) ==
    {IF \E k \in 1..Len(f) : f[k].extended # 0 THEN 3 ELSE 2}
    \cup (IF Len(f) <= 1 THEN {4} ELSE {})

\* The signatures a file starts with: DIRC, and for the file without entries
\* also another word.
Signatures(f) == {DIRC} \cup (IF f = <<>> THEN {<<"D", "I", "R", "D">>} ELSE {})

\* Index::new with the file in its buffer, nothing read yet.
InitIndex ==
    \E f \in IndexFiles \cup LongNameFiles :
        \E version \in HeaderVersions(f), signature \in Signatures(f) :
            /\ fs = <<>>
            /\ index = <<>>
            /\ global_ignore = <<>>
            /\ pending = {}
            /\ running = {}
            /\ changed_files = <<>>
            /\ entries = <<>>
            /\ panicked = FALSE
            /\ started = {}
            /\ pc = "open"
            /\ file = f
            /\ header = [version |-> 0, entries |-> 0]
            /\ contents = HeaderBytes(signature, version, Len(f)) \o FileBytes(f)
            /\ parsed = <<>>

----------------------------------------------------------------------------
(* The scope: worker threads pick up tasks and run them step by step.      *)

\* A scope that returns as soon as the body of its root task has returned.
ScopeRootReturned ==
    /\ RootTask(RootPath) \notin pending
    /\ \A r \in running : r.task # RootTask(RootPath)

\* rayon::scope returns when every task spawned on it has finished.
ScopeDrained == pending = {} /\ running = {}

\* What the steps of a task leave in `running`: nothing once they are done.
Remaining(task, steps) ==
    IF steps = <<>> THEN {} ELSE {[task |-> task, steps |-> steps]}

\* An idle worker takes the spawned task t off the queue of the scope.
PickUp(t) ==
    /\ t \in pending
    /\ Cardinality(running) < NumThreads
    /\ pending' = pending \ {t}

\* A worker thread picks up a spawned task: it lists the directory (or opens
\* the submodule) and is about to perform the task's first step.
RunTask(t) ==
    /\ PickUp(t)
    /\ running' = running \cup Remaining(t, TaskSteps(RootPath, index, t))
    /\ started' = started \cup {t}
    /\ UNCHANGED <<fs, index, global_ignore, changed_files, entries, panicked, pc,
                   index_vars>>

\* A running task performs its next step, with a list of its own in every
\* task but the root's: what the other tasks push never reaches changed_files.
StepOnClone(r) ==
    /\ r \in running
    /\ LET s == Head(r.steps)
       IN /\ changed_files' = IF s.op = "push" /\ r.task.depth = 1
                              THEN Append(changed_files, s.entry)
                              ELSE changed_files
          /\ pending' = IF s.op = "spawn" THEN pending \cup {s.task} ELSE pending
          /\ panicked' = (panicked \/ s.op = "panic")
          /\ running' = (running \ {r})
                        \cup Remaining(r.task, IF s.op = "panic" THEN <<>>
                                               ELSE Tail(r.steps))
    /\ UNCHANGED <<fs, index, global_ignore, entries, started, pc, index_vars>>

\* A running task performs its next step: a push under the mutex, a spawn on
\* the scope, or a panic that ends the task.
Step(r) ==
    /\ r \in running
    /\ LET s == Head(r.steps)
       IN /\ changed_files' = IF s.op = "push" THEN Append(changed_files, s.entry)
                              ELSE changed_files
          /\ pending' = IF s.op = "spawn" THEN pending \cup {s.task} ELSE pending
          /\ panicked' = (panicked \/ s.op = "panic")
          /\ running' = (running \ {r})
                        \cup Remaining(r.task, IF s.op = "panic" THEN <<>>
                                               ELSE Tail(r.steps))
    /\ UNCHANGED <<fs, index, global_ignore, entries, started, pc, index_vars>>

\* diff_against_index leaves the scope: a panic of a task is resumed, else
\* the list is copied into WorkTree.entries.
Return ==
    /\ pc = "scope"
    /\ ScopeDrained
    /\ pc' = IF panicked THEN "panic" ELSE "done"
    /\ entries' = IF panicked THEN entries ELSE changed_files
    /\ UNCHANGED <<fs, index, global_ignore, pending, running, changed_files,
                   panicked, started, index_vars>>

Next ==
    \/ \E t \in pending : RunTask(t)
    \/ \E r \in running : Step(r)
    \/ Return

Spec == Init /\ [][Next]_vars

SpecFlat == InitFlat /\ [][Next]_vars

SpecIgnore == InitIgnore /\ [][Next]_vars

SpecSub == InitSub /\ [][Next]_vars

SpecMerge == InitMerge /\ [][Next]_vars

\* The rayon pool is fair: a spawned task is picked up once a worker is idle
\* (the steps that take a task off the queue are the RunTask steps),
\* a running task goes on with its next step (the lock of the shared list is
\* held for one push only), and the scope is left once it has drained.
Fairness ==
    /\ WF_pending(\E t \in pending : PickUp(t))
    /\ WF_vars(\E r \in running : Step(r))
    /\ WF_vars(Return)

FairSpec == InitFair /\ [][Next]_vars /\ Fairness

\* Index::new reads the header.
ReadHeader ==
    /\ pc = "open"
    /\ LET r == read_header(contents)
       IN IF r.kind = "ok"
          THEN /\ header' = r.header
               /\ contents' = r.output
               /\ pc' = "read"
          ELSE /\ pc' = "index_err"
               /\ UNCHANGED <<header, contents>>
    /\ UNCHANGED <<fs, index, global_ignore, pending, running, changed_files,
                   entries, panicked, started, file, parsed>>

\* One round of the loop of Index::new: read_entry, get_directory_entry, push.
ReadEntry ==
    /\ pc = "read"
    /\ Len(parsed) < header.entries
    /\ LET r == read_entry(contents)
       IN IF r.kind = "ok"
          THEN /\ index' = [get_directory_entry(r.directory, index)
                               EXCEPT ![r.directory] = Append(@, r.entry)]
               /\ contents' = r.output
               /\ parsed' = Append(parsed, r)
               /\ pc' = pc
          ELSE /\ pc' = IF r.kind = "err" THEN "index_err" ELSE "index_panic"
               /\ UNCHANGED <<index, contents, parsed>>
    /\ UNCHANGED <<fs, global_ignore, pending, running, changed_files, entries,
                   panicked, started, file, header>>

\* Index::new returns the index.
IndexReturn ==
    /\ pc = "read"
    /\ Len(parsed) = header.entries
    /\ pc' = "indexed"
    /\ UNCHANGED <<fs, index, global_ignore, pending, running, changed_files,
                   entries, panicked, started, index_vars>>

NextIndex == ReadHeader \/ ReadEntry \/ IndexReturn

SpecIndex == InitIndex /\ [][NextIndex]_vars

----------------------------------------------------------------------------
(* Vocabulary of the properties.                                           *)

RECURSIVE SplitSlash(_)
\* The components of a "/"-separated relative path.
SplitSlash(s) ==
    IF s = <<>> THEN <<>>
    ELSE IF LastSlash(s) = 0 THEN <<s>>
    ELSE Append(SplitSlash(ParentStr(s)), FileNameStr(s))

\* The full repository-relative path of the entry `name` of directory key d.
JoinKey(d, name) == IF d = <<>> THEN name ELSE d \o <<"/">> \o name

\* The paths an index tracks.
TrackedPaths(idx) ==
    UNION {{JoinKey(d, idx[d][k].name) : k \in 1..Len(idx[d])} : d \in DOMAIN idx}

\* The repository-relative name of the node at p, "/"-separated.
RelName(root, p) == GitPath(SubSeq(p, Len(root) + 1, Len(p)))

\* The nodes of the working tree at root, without root and what .git holds.
TreeNodes(root) ==
    {p \in DOMAIN fs : /\ Len(p) > Len(root)
                       /\ IsPrefix(root, p)
                       /\ \A k \in Len(root) + 1..Len(p) : p[k] # GIT}

\* The directories of the working tree at root the index records as
\* submodules or as files.
TrackedDirs(root, idx) ==
    {p \in TreeNodes(root) : fs[p].is_dir /\ RelName(root, p) \in TrackedPaths(idx)}

\* How often e occurs in seq.
Count(seq, e) == Cardinality({k \in 1..Len(seq) : seq[k] = e})

\* What read_dir lists of the directory of task t.
Listed(t) == {p \in Children(t.path) : Leaf(p) # GIT}

\* The chain the comparator uses in the directory of task t.
Chain(t) == update_ignores(t.path, t.ignores)

\* Task t visits a directory the index has a list for.
Compared(t) == t.kind = "dir" /\ RelName(RootPath, t.path) \in DOMAIN index

\* The entries task t pushes.
Pushed(t) == StepEntries(TaskSteps(RootPath, index, t))

\* The directories task t lists that the index knows neither as a directory
\* nor as an entry.
UntrackedDirs(t) ==
    {p \in Listed(t) : /\ fs[p].is_dir
                       /\ RelName(RootPath, p) \notin DOMAIN index
                       /\ RelName(RootPath, p) \notin TrackedPaths(index)}

\* The files below directory p, at any depth.
FilesBelow(p) == {q \in DOMAIN fs : IsPrefix(p, q) /\ ~fs[q].is_dir}

\* Entry name lies strictly below the directory named dir.
NamedBelow(name, dir) == Len(name) > Len(dir) + 1 /\ IsPrefix(Append(dir, "/"), name)

IsSortedByName(seq) ==
    \A k \in 1..Len(seq) - 1 : StrCmp(seq[k].name, seq[k + 1].name) # "Greater"

Names(seq, state) == {seq[k].name : k \in {j \in 1..Len(seq) : seq[j].state = state}}

RECURSIVE CleanRepo(_, _)
\* The working tree at root holds every file idx tracks with the stat idx
\* records, holds no other file, and every submodule on disk is a clean
\* checkout of the recorded commit.
CleanRepo(root, idx) ==
    /\ \A d \in DOMAIN idx : \A k \in 1..Len(idx[d]) :
          LET e == idx[d][k]
              p == root \o SplitSlash(d) \o <<e.name>>
          IN IF e.object_type = "GitLink"
             THEN Exists(p) =>
                    /\ fs[p].is_dir
                    /\ fs[p].repo # {}
                    /\ \A r \in fs[p].repo :
                          r.head = e.sha /\ ~r.staged /\ CleanRepo(p, r.index)
             ELSE /\ Exists(p)
                  /\ ~fs[p].is_dir
                  /\ fs[p].mtime.secs = e.stat.mtime \div NanosPerSec
                  /\ fs[p].mtime.nanos = e.stat.mtime % NanosPerSec
                  /\ fs[p].len = e.stat.size
    /\ \A p \in TreeNodes(root) :
          \/ \E q \in TrackedDirs(root, idx) : IsPrefix(q, p)
          \/ fs[p].is_dir
          \/ ~fs[p].is_dir /\ RelName(root, p) \in TrackedPaths(idx)

----------------------------------------------------------------------------
(* Properties of the walker on trees (Spec).                               *)

\* C1: the entries diff_against_index returns are sorted ascending by name,
\* byte-wise, whatever directories and probes they come from.
C1_EntriesSorted == pc = "done" => IsSortedByName(entries)

\* C2: the entries returned are a function of the working tree and the index:
\* every schedule of the tasks returns the sequence the one-thread schedule
\* (tasks in spawn order) returns.
C2_SameAsOneThread ==
    pc = "done" => entries = diff_against_index(RootPath, index).entries

\* C3: when the list is copied into WorkTree.entries every task spawned on the
\* scope, directory visits and submodule probes alike, has finished, and no
\* push follows the copy: the entries are the whole list.
C3_CopyAfterDrain ==
    pc = "done" => pending = {} /\ running = {} /\ entries = changed_files

C3_Witness ==
    /\ pc = "done"
    /\ Len(entries) >= 3
    /\ \E t \in started : t.kind = "sub"
    /\ \E t \in started : t.kind = "dir" /\ t.depth >= 3

\* C6: on a working tree where every tracked file exists with the recorded
\* mtime and size, nothing is untracked and every submodule is clean,
\* diff_against_index returns (it does not panic) and returns no entry.
C6_CleanTreeEmpty ==
    (CleanRepo(RootPath, index) /\ pc # "scope") => (pc = "done" /\ entries = <<>>)

\* C7: every entry is named by the full relative path of an index entry or by
\* the relative path of a node of the working tree ("/" appended for a
\* directory), and a Deleted entry by the full path of the index entry.
C7_NamesAreRepoPaths ==
    pc = "done" =>
        /\ \A k \in 1..Len(entries) :
              entries[k].name \in
                  TrackedPaths(index)
                  \cup {IF fs[p].is_dir THEN Append(RelName(RootPath, p), "/")
                        ELSE RelName(RootPath, p) : p \in TreeNodes(RootPath)}
        /\ Names(entries, "Deleted") \subseteq TrackedPaths(index)

----------------------------------------------------------------------------
(* Properties of the comparator on flat directories (SpecFlat).            *)

\* A directory of regular files only, its index list of regular files only,
\* under a chain that matches nothing.
PlainDirectory(t) ==
    /\ Compared(t)
    /\ \A p \in Listed(t) : ~fs[p].is_dir
    /\ \A k \in 1..Len(index[RelName(RootPath, t.path)]) :
          index[RelName(RootPath, t.path)][k].object_type = "Regular"
    /\ \A k \in 1..Len(Chain(t)) : Chain(t)[k].globs = <<>>

\* C4: on a directory of regular files with no ignore pattern the comparator
\* pushes one New entry for each name listed and not in the index list, one
\* Deleted entry for each name in the index list and not listed, and neither
\* for a name in both.
C4_NewAndDeletedAreTheDifferences ==
    \A t \in started :
        PlainDirectory(t) =>
            LET key == RelName(RootPath, t.path)
                W == {Leaf(p) : p \in Listed(t)}
                I == {index[key][k].name : k \in 1..Len(index[key])}
                out == Pushed(t)
            IN /\ Names(out, "New") = {JoinKey(key, n) : n \in W \ I}
               /\ Names(out, "Deleted") = I \ W
               /\ \A k \in 1..Len(out) :
                     out[k].state \in {"New", "Deleted"} => Count(out, out[k]) = 1

C4_Witness ==
    /\ pc = "done"
    /\ \E t \in started :
          /\ PlainDirectory(t)
          /\ t.depth >= 2
          /\ Cardinality(Names(Pushed(t), "New")) >= 2
          /\ Names(Pushed(t), "Deleted") # {}
          /\ \A k \in 1..Len(Pushed(t)) : Count(entries, Pushed(t)[k]) = 1

----------------------------------------------------------------------------
(* Properties of the ignore chain (SpecIgnore).                            *)

\* The files task t lists that its index list does not name.
UntrackedFiles(t) ==
    {p \in Listed(t) :
        /\ ~fs[p].is_dir
        /\ \A k \in 1..Len(index[RelName(RootPath, t.path)]) :
              index[RelName(RootPath, t.path)][k].name # Leaf(p)}

\* C8: an untracked file the comparator classifies is asked of the matchers
\* of the chain from the innermost on; the first matcher that whitelists or
\* ignores decides; the file gets a New entry iff that matcher whitelists or
\* no matcher decides.
C8_FirstDecisiveMatcherWins ==
    \A t \in started : Compared(t) =>
        \A p \in UntrackedFiles(t) :
            LET name == RelName(RootPath, p)
                verdict == [k \in 1..Len(Chain(t)) |->
                              matched_path_or_any_parents(Chain(t)[k], name, FALSE)]
                decisive == {k \in 1..Len(Chain(t)) : verdict[k] # "None"}
                first == CHOOSE k \in decisive : \A j \in decisive : k <= j
            IN Count(Pushed(t), StatusEntry(name, "New"))
                  = IF decisive = {} \/ verdict[first] = "Whitelist" THEN 1 ELSE 0

C8_Witness ==
    /\ pc = "done"
    /\ \E t \in started : Compared(t) /\ Len(Chain(t)) >= 3 /\
          \E p \in UntrackedFiles(t) :
              /\ matched_path_or_any_parents(Chain(t)[1], RelName(RootPath, p), FALSE)
                    = "Whitelist"
              /\ matched_path_or_any_parents(Chain(t)[2], RelName(RootPath, p), FALSE)
                    = "Ignore"
              /\ Count(entries, StatusEntry(RelName(RootPath, p), "New")) = 1
    /\ \E t \in started : Compared(t) /\
          \E p \in UntrackedFiles(t) :
              /\ ChainVerdict(Chain(t), RelName(RootPath, p), FALSE) = "Ignore"
              /\ Count(entries, StatusEntry(RelName(RootPath, p), "New")) = 0

\* C9: an untracked directory that no matcher of the chain matches and that
\* holds, at some depth, a file the chain does not ignore gets exactly one New
\* entry named by its path and "/", no entry for anything below it, and is
\* not descended into.
C9_UntrackedDirectoryCollapses ==
    pc = "done" =>
        \A t \in started : t.kind = "dir" =>
            \A p \in UntrackedDirs(t) :
                LET name == RelName(RootPath, p)
                IN (/\ ChainVerdict(Chain(t), name, TRUE) = "None"
                    /\ \E q \in FilesBelow(p) :
                          ChainVerdict(Chain(t), RelName(RootPath, q), FALSE) # "Ignore")
                   => /\ Count(entries, StatusEntry(Append(name, "/"), "New")) = 1
                      /\ \A k \in 1..Len(entries) : ~NamedBelow(entries[k].name, name)
                      /\ \A s \in started : ~IsPrefix(p, s.path)

\* C10: an untracked directory that holds no file, or only files the chain
\* ignores, gets no entry, and nothing below it gets one.
C10_NothingForIgnoredDirectory ==
    pc = "done" =>
        \A t \in started : t.kind = "dir" =>
            \A p \in UntrackedDirs(t) :
                LET name == RelName(RootPath, p)
                IN (\A q \in FilesBelow(p) :
                       ChainVerdict(Chain(t), RelName(RootPath, q), FALSE) = "Ignore")
                   => \A k \in 1..Len(entries) :
                         /\ entries[k].name # Append(name, "/")
                         /\ ~NamedBelow(entries[k].name, name)

\* A glob of some matcher of the chain matches the file named name itself.
MatchedItself(ignores, name) ==
    \E k \in 1..Len(ignores) : matched_stripped(ignores[k], name, FALSE) # "None"

\* The untracked directories task t lists that the chain ignores and that
\* hold a file the chain whitelists or no glob matches.
IgnoredDirsWithFile(t) ==
    {p \in UntrackedDirs(t) :
        /\ ChainVerdict(Chain(t), RelName(RootPath, p), TRUE) = "Ignore"
        /\ \E q \in FilesBelow(p) :
              \/ ChainVerdict(Chain(t), RelName(RootPath, q), FALSE) = "Whitelist"
              \/ ~MatchedItself(Chain(t), RelName(RootPath, q))}

\* C11 as stated: an ignored directory holding a whitelisted or unmatched
\* file gets one New entry named by its path and "/", and no entry for
\* anything below it.
C11_IgnoredDirectoryEmitted ==
    pc = "done" =>
        \A t \in started : t.kind = "dir" =>
            \A p \in IgnoredDirsWithFile(t) :
                /\ Count(entries, StatusEntry(Append(RelName(RootPath, p), "/"), "New")) = 1
                /\ \A k \in 1..Len(entries) :
                      ~NamedBelow(entries[k].name, RelName(RootPath, p))

\* C11 amended: an untracked directory the chain ignores gets no entry,
\* whatever files it holds, and nothing below it gets one.
C11_IgnoredDirectorySkipped ==
    pc = "done" =>
        \A t \in started : t.kind = "dir" =>
            \A p \in UntrackedDirs(t) :
                ChainVerdict(Chain(t), RelName(RootPath, p), TRUE) = "Ignore" =>
                    \A k \in 1..Len(entries) :
                        /\ entries[k].name # Append(RelName(RootPath, p), "/")
                        /\ ~NamedBelow(entries[k].name, RelName(RootPath, p))

C11_Witness ==
    /\ pc = "done"
    /\ \E t \in started : Compared(t) /\
          \E p \in IgnoredDirsWithFile(t) :
              /\ \E q \in FilesBelow(p) :
                    ChainVerdict(Chain(t), RelName(RootPath, q), FALSE) = "Whitelist"
              /\ \A k \in 1..Len(entries) :
                    /\ entries[k].name # Append(RelName(RootPath, p), "/")
                    /\ ~NamedBelow(entries[k].name, RelName(RootPath, p))
    /\ entries # <<>>

----------------------------------------------------------------------------
(* Properties of submodules and failing tasks (SpecSub).                   *)

\* Task t lists its directory and merges the listing with an index list.
Merged(t) == Compared(t) /\ ~fs[t.path].denied

\* The entries of the index list of task t whose name task t does not list.
AbsentEntries(t) ==
    {k \in 1..Len(index[RelName(RootPath, t.path)]) :
        \A p \in Listed(t) : Leaf(p) # index[RelName(RootPath, t.path)][k].name}

\* The entries task t pushes for the index entry e of its list: those named
\* by its leaf name or by its full path.
PushedFor(t, e) ==
    SelectSeq(Pushed(t),
              LAMBDA s : s.name \in {e.name, JoinKey(RelName(RootPath, t.path), e.name)})

\* C12: a submodule entry whose name is not listed gets no entry at all, in
\* the middle of the merge or after the listing is exhausted; every other
\* index entry that is not listed gets exactly one entry, a Deleted one.
C12_MissingSubmoduleSilent ==
    \A t \in started : Merged(t) =>
        \A k \in AbsentEntries(t) :
            LET e == index[RelName(RootPath, t.path)][k]
            IN IF e.object_type = "GitLink"
               THEN PushedFor(t, e) = <<>>
               ELSE /\ Len(PushedFor(t, e)) = 1
                    /\ PushedFor(t, e)[1].state = "Deleted"

C12_Witness ==
    /\ pc = "done"
    /\ \E t \in started : Merged(t) /\
          \E k \in AbsentEntries(t) :
              LET e == index[RelName(RootPath, t.path)][k]
              IN /\ e.object_type = "GitLink"
                 /\ \E p \in Listed(t) : StrCmp(Leaf(p), e.name) = "Greater"
                 /\ \A j \in 1..Len(entries) : entries[j].name # e.name
    /\ \E j \in 1..Len(entries) : entries[j].state = "Deleted"

\* The probes the scope started.
Probes == {t \in started : t.kind = "sub"}

\* The submodule task t can open its repository and read it to the end.
Readable(t) == ~submodule_flags(t).panicked

\* The detail the flags f stand for: the phrases of the true flags, in the
\* order new commits, modified content, untracked content, joined with ", ".
DetailParts(f) ==
    (IF f.new_commits THEN <<"new commits">> ELSE <<>>)
    \o (IF f.modified_content THEN <<"modified content">> ELSE <<>>)
    \o (IF f.untracked_content THEN <<"untracked content">> ELSE <<>>)

Detail(f) ==
    LET parts == DetailParts(f)
    IN IF Len(parts) = 1 THEN parts[1]
       ELSE IF Len(parts) = 2 THEN parts[1] \o ", " \o parts[2]
       ELSE parts[1] \o ", " \o parts[2] \o ", " \o parts[3]

\* The state Modified(Some(detail)) as an entry shows it.
ModifiedSome(detail) == "Modified(Some(" \o detail \o "))"

\* The entries of the result named name.
EntriesNamed(name) == SelectSeq(entries, LAMBDA s : s.name = name)

\* C13: a probe whose three flags are all false leaves no entry; any other
\* probe leaves exactly one entry, named after the submodule, whose state is
\* Modified(Some(detail)) with the detail of its flags.
C13_DetailNamesTheFlags ==
    pc = "done" =>
        \A t \in Probes :
            LET f == submodule_flags(t)
            IN IF ~(f.new_commits \/ f.modified_content \/ f.untracked_content)
               THEN EntriesNamed(t.name) = <<>>
               ELSE /\ Len(EntriesNamed(t.name)) = 1
                    /\ EntriesNamed(t.name)[1].state = ModifiedSome(Detail(f))

\* The repository the submodule task t opens and its diff against its index.
RepoOf(t) == CHOOSE r \in fs[t.path].repo : TRUE

NestedDiff(t) == diff_against_index(t.path, RepoOf(t).index).entries

HasState(seq, states) == \E k \in 1..Len(seq) : seq[k].state \in states

\* C14: modified_content holds exactly when the submodule has staged changes
\* or its working tree has a Modified or Deleted entry; untracked_content
\* holds exactly when its working tree has a New entry.
C14_FlagsFollowTheKindOfChange ==
    \A t \in Probes : Readable(t) =>
        /\ submodule_flags(t).modified_content
              <=> (RepoOf(t).staged \/ HasState(NestedDiff(t), {"Modified", "Deleted"}))
        /\ submodule_flags(t).untracked_content <=> HasState(NestedDiff(t), {"New"})

\* C15: computing the status of a submodule starts no probe for a submodule
\* inside it, so a run starts at most one probe per tracked directory entry
\* of the outer repository.
C15_OneLevelOfProbes ==
    pc = "done" => \A t \in Probes : submodule_flags(t).probes = 0

\* C16: once a directory task has failed to list its directory, the run ends
\* with an error value: neither with a list nor with a panic.
C16_FailedDirectoryIsErr ==
    (pc # "scope" /\ \E t \in started : t.kind = "dir" /\ fs[t.path].denied)
        => pc = "err"

\* C17: once a probe has met a directory that is no repository, the run ends
\* with an error value: neither with a list nor with a panic.
C17_BrokenSubmoduleIsErr ==
    (pc # "scope" /\ \E t \in Probes : Exists(t.path) /\ fs[t.path].repo = {})
        => pc = "err"

----------------------------------------------------------------------------
(* Properties of the index (SpecIndex).                                    *)

PrefixClosed(directory_map) ==
    \A d \in DOMAIN directory_map : AncestorStrs(d) \subseteq DOMAIN directory_map

C19_ListsSorted ==
    pc = "indexed" => \A d \in DOMAIN index : IsSortedByName(index[d])

\* The modes an entry of a file can carry.
Modes == {k.mode : k \in EntryKinds}

\* C20: what read_entry returned for the k-th entry of the file is that
\* entry: its path, size, object id and mtime, with the stream left at the
\* start of the next entry, and nothing but its own mode gives that result.
C20_EntryReproduced ==
    header.version \in {2, 3} => \A k \in 1..Len(parsed) :
        /\ JoinKey(parsed[k].directory, parsed[k].entry.name) = file[k].path
        /\ parsed[k].entry.stat.size = file[k].size
        /\ parsed[k].entry.sha = Oid(file[k].sha)
        /\ parsed[k].entry.stat.mtime = file[k].mtime_s * NanosPerSec + file[k].mtime_ns
        /\ parsed[k].output = FileBytes(SubSeq(file, k + 1, Len(file)))
        /\ \A m \in Modes :
              LET r == read_entry(EntryBytes([file[k] EXCEPT !.mode = m]))
              IN (r.directory = parsed[k].directory /\ r.entry = parsed[k].entry)
                    => m = file[k].mode

RECURSIVE ReadEntries(_, _)
\* What the first n rounds of the loop of Index::new read from stream.
ReadEntries(stream, n) ==
    IF n = 0 THEN <<>>
    ELSE LET r == read_entry(stream)
         IN IF r.kind # "ok" THEN <<>> ELSE <<r>> \o ReadEntries(r.output, n - 1)

\* C21: parse_name_size returns the low 12 bits of the flags whatever the
\* four bits above them are, and an entry with a stage is read with the
\* name and the length of the same entry at stage 0 and is pushed on the list
\* of that directory (the entry read last is compared in each state, the
\* sizes 0 and 4095 once the file is read).
C21_StageBitsIgnored ==
    /\ \A k \in 1..Len(parsed) :
          \E j \in 1..Len(index[parsed[k].directory]) :
              index[parsed[k].directory][j] = parsed[k].entry
    /\ Len(parsed) > 0 =>
          LET k == Len(parsed)
              twin == ReadEntries(FileBytes([file EXCEPT ![k].stage = 0]), k)
              sizes == {Len(file[k].path)}
                       \cup (IF pc = "indexed" THEN {0, 4095} ELSE {})
          IN /\ \A top \in 0..15, n \in sizes :
                   parse_name_size(be_bytes_u16(top * 4096 + n)) = n
             /\ Len(twin) = k
             /\ twin[k].directory = parsed[k].directory
             /\ twin[k].entry.name = parsed[k].entry.name
             /\ Len(twin[k].output) = Len(parsed[k].output)

C21_Witness ==
    /\ pc = "indexed"
    /\ \E k \in 1..Len(parsed) :
          /\ file[k].stage > 0
          /\ JoinKey(parsed[k].directory, parsed[k].entry.name) = file[k].path
          /\ Len(index[parsed[k].directory]) > 1

C23_OtherVersionsRefused ==
    (pc # "open" /\ header.version \notin {2, 3}) => pc = "index_err"

----------------------------------------------------------------------------
(* Properties of the walker.                                               *)

\* C24: in a directory the index has no list for, the comparator does what
\* the merge does against an empty list: it pushes what process_new_item
\* gives for each child, so every file the chain does not ignore gets one
\* New entry, and does not descend into any child directory.
C24_NoListAllUnknown ==
    pc = "done" =>
        \A t \in started : (t.kind = "dir" /\ ~Compared(t)) =>
            /\ Pushed(t) = StepEntries(get_file_deltas(Listing(t.path, t.depth), <<>>,
                                                       index, Chain(t)).steps)
            /\ \A p \in Listed(t) :
                  IF fs[p].is_dir THEN \A u \in started : u.path # p
                  ELSE ChainVerdict(Chain(t), RelName(RootPath, p), FALSE) # "Ignore"
                          => Count(entries, StatusEntry(RelName(RootPath, p), "New")) = 1

\* C25: the mtime the walker compares is the file's mtime in nanoseconds
\* since the epoch, the unit of the index entry: it equals the mtime of the
\* index entry exactly when the file's mtime is the recorded one.
C25_MtimeInNanoseconds ==
    \A t \in started : Compared(t) =>
        \A p \in Listed(t), k \in 1..Len(index[RelName(RootPath, t.path)]) :
            LET e == index[RelName(RootPath, t.path)][k]
                w == ReadDirEntry(p, t.path, t.depth)
                nanos == fs[p].mtime.secs * NanosPerSec + fs[p].mtime.nanos
            IN (~fs[p].is_dir /\ e.name = Leaf(p)) =>
                  /\ w.stat.mtime = nanos
                  /\ w.stat.mtime = e.stat.mtime <=> nanos = e.stat.mtime

RECURSIVE PushedCount(_, _)
\* How often the tasks push the entry e, all together.
PushedCount(tasks, e) ==
    IF tasks = {} THEN 0
    ELSE LET t == CHOOSE u \in tasks : TRUE
         IN Count(Pushed(t), e) + PushedCount(tasks \ {t}, e)

RECURSIVE PushedTotal(_)
PushedTotal(tasks) ==
    IF tasks = {} THEN 0
    ELSE LET t == CHOOSE u \in tasks : TRUE
         IN Len(Pushed(t)) + PushedTotal(tasks \ {t})

\* C26: the entries returned are, as a multiset, the entries the tasks of the
\* run pushed: each as often as the tasks pushed it, and no other.
C26_NoPushLost ==
    pc = "done" =>
        /\ Len(entries) = PushedTotal(started)
        /\ \A k \in 1..Len(entries) :
              Count(entries, entries[k]) = PushedCount(started, entries[k])

C26_Witness ==
    /\ pc = "done"
    /\ \E t, u \in started :
          /\ t.kind = "sub" /\ u.kind = "dir" /\ u.depth > 1
          /\ Pushed(t) # <<>> /\ Pushed(u) # <<>>
    /\ \E t \in started : t.depth = 1 /\ Pushed(t) # <<>>


\* The matchers of the directories from path up to the root that hold a
\* .gitignore, innermost first, followed by the global matcher.
RECURSIVE ExpectedChain(_)
ExpectedChain(path) ==
    (IF Join(path, GITIGNORE) \in DOMAIN fs
     THEN <<BuildMatcher(path, IF fs[Join(path, GITIGNORE)].is_dir THEN <<>>
                               ELSE fs[Join(path, GITIGNORE)].lines)>>
     ELSE <<>>)
    \o (IF path = RootPath THEN <<BuildMatcher(<<>>, global_ignore)>>
        ELSE ExpectedChain(SubSeq(path, 1, Len(path) - 1)))

\* C27: the chain a directory is compared with is the global matcher preceded
\* by one matcher for each directory from the root to it that holds a
\* .gitignore, innermost first; the chain handed to a directory is the chain
\* of its parent, untouched by the sibling tasks, in every interleaving.
C27_ChainFollowsThePath ==
    \A t \in started :
        t.kind = "dir" =>
            /\ Chain(t) = ExpectedChain(t.path)
            /\ t.ignores = IF t.path = RootPath
                           THEN <<BuildMatcher(<<>>, global_ignore)>>
                           ELSE ExpectedChain(SubSeq(t.path, 1, Len(t.path) - 1))

\* Two sibling directories were compared, one below a root .gitignore with a
\* .gitignore of its own, and their chains differ.
C27_Witness ==
    /\ pc = "done"
    /\ \E t, u \in started :
          /\ t.kind = "dir" /\ u.kind = "dir"
          /\ t.depth = 2 /\ u.depth = 2 /\ t.path # u.path
          /\ Len(Chain(t)) = 3
          /\ Len(Chain(u)) = 2


\* The children of the directory of task t as the comparator leaves them.
Classified(t) ==
    process_directory(RootPath, index, t.path, t.ignores, Listing(t.path, t.depth)).files

\* C28: the directories visited are the root and directories that are keys
\* of the index; a child directory the comparator found untracked or handed
\* to the submodule probe has process = false and neither it nor anything
\* below it is visited; no directory named .git is listed or visited.
C28_OnlyTrackedDirectoriesVisited ==
    \A t \in started :
        t.kind = "dir" =>
            /\ t.path = RootPath \/ RelName(RootPath, t.path) \in DOMAIN index
            /\ \A k \in 1..Len(t.path) : t.path[k] # GIT
            /\ Compared(t) /\ ~fs[t.path].denied =>
                  \A k \in 1..Len(Classified(t)) :
                      LET f == Classified(t)[k]
                      IN /\ f.name # GIT
                         /\ f.is_dir /\ Join(t.path, f.name) \in UntrackedDirs(t) \cup TrackedDirs(RootPath, index)
                               => ~f.process
                         /\ f.is_dir /\ ~f.process
                               => \A u \in started :
                                      u.kind = "dir" => ~IsPrefix(Join(t.path, f.name), u.path)


\* No directory gets a second read_dir task: a task that has run is not
\* waiting again, and the tasks of one directory are one task.
SpawnedOnce ==
    /\ pending \cap started = {}
    /\ \A t, u \in pending \cup started :
          t.kind = "dir" /\ u.kind = "dir" /\ t.path = u.path => t = u

\* C29: under fair scheduling of the workers diff_against_index eventually
\* returns, whatever the working tree and the index hold, and no directory
\* gets a read_dir task twice.
C29_EventuallyReturns == []SpawnedOnce /\ <>(pc = "done")


\* The entries the comparator pushes for the directory of task t.
Deltas(t) ==
    StepEntries(get_file_deltas(Listing(t.path, t.depth),
                                index[RelName(RootPath, t.path)], index, Chain(t)).steps)

\* C30: in a directory the index has a list for, no Deleted entry carries a
\* name the listing of the directory holds, and no two entries carry the same
\* name, also when the list holds a name once per merge stage.
C30_NoDeletedForPresentName ==
    \A t \in started :
        Merged(t) =>
            /\ \A k \in 1..Len(Deltas(t)) :
                  Deltas(t)[k].state = "Deleted" =>
                      \A f \in Listed(t) : Leaf(f) # Deltas(t)[k].name
            /\ \A j, k \in 1..Len(Deltas(t)) :
                  j # k => Deltas(t)[j].name # Deltas(t)[k].name

====
